---- MODULE Spec2Model ----
(***************************************************************************)
(* Model of the book catalogue API of src/book: the list endpoint          *)
(* BookListView.get (filter parsing, query composition over the relational *)
(* store, count, pagination, response envelope), driven by requests over   *)
(* a read-only store.                                                      *)
(*                                                                         *)
(* Text is a sequence of one-character strings, so that split, strip,      *)
(* lower, isdigit, int and the substring test are computed, not assumed.   *)
(* An optional value (Python None, SQL NULL, JSON null) is <<>> and a      *)
(* present value v is <<v>>.                                               *)
(***************************************************************************)
EXTENDS Integers, Sequences, FiniteSets, TLC

None == <<>>
Some(v) == <<v>>
IsNone(o) == o = <<>>
Val(o) == o[1]

(***************************************************************************)
(* Bounds of the model.                                                    *)
(***************************************************************************)
\* number of Book rows in the store
MaxBooks == 2
\* number of filter parameters present in one request
MaxFilters == 2

(***************************************************************************)
(* Python str operations used by the view.                                 *)
(***************************************************************************)
LowerCase == <<"a","b","c","d","e","f","g","h","i","j","k","l","m",
               "n","o","p","q","r","s","t","u","v","w","x","y","z">>
UpperCase == <<"A","B","C","D","E","F","G","H","I","J","K","L","M",
               "N","O","P","Q","R","S","T","U","V","W","X","Y","Z">>
AsciiDigits == <<"0","1","2","3","4","5","6","7","8","9">>
\* characters str.isdigit() accepts: the decimal digits and digit-like
\* characters such as SUPERSCRIPT TWO (written "^2"), which int() rejects
SuperscriptTwo == "^2"
DigitChars == {AsciiDigits[i] : i \in 1..10} \cup {SuperscriptTwo}

\* the characters of the requests and of the store
Chars ==
    {LowerCase[i] : i \in 1..26} \cup {UpperCase[i] : i \in 1..26}
    \cup DigitChars \cup {",", " ", "/", "-", "+"}

\* str.lower() on one character
LowerChar ==
    [c \in Chars |->
        IF \E i \in 1..26 : UpperCase[i] = c
        THEN LowerCase[CHOOSE i \in 1..26 : UpperCase[i] = c]
        ELSE c]
\* UPPER() on one character
UpperChar ==
    [c \in Chars |->
        IF \E i \in 1..26 : LowerCase[i] = c
        THEN UpperCase[CHOOSE i \in 1..26 : LowerCase[i] = c]
        ELSE c]
\* str.lower()
lower(s) == [i \in 1..Len(s) |-> LowerChar[s[i]]]
\* SQL UPPER(s)
upper(s) == [i \in 1..Len(s) |-> UpperChar[s[i]]]

\* str.strip(): leading and trailing blanks removed
RECURSIVE lstrip(_)
lstrip(s) == IF s # <<>> /\ Head(s) = " " THEN lstrip(Tail(s)) ELSE s
RECURSIVE rstrip(_)
rstrip(s) ==
    IF s # <<>> /\ s[Len(s)] = " " THEN rstrip(SubSeq(s, 1, Len(s) - 1)) ELSE s
strip(s) == rstrip(lstrip(s))

\* str.split(','): the pieces between commas, empty pieces kept
RECURSIVE split(_)
split(s) ==
    IF \E i \in 1..Len(s) : s[i] = ","
    THEN LET i == CHOOSE k \in 1..Len(s) :
                      s[k] = "," /\ \A j \in 1..(k - 1) : s[j] # ","
         IN  <<SubSeq(s, 1, i - 1)>> \o split(SubSeq(s, i + 1, Len(s)))
    ELSE <<s>>

\* str.isdigit(): non-empty and every character a digit character
isdigit(s) == s # <<>> /\ \A i \in 1..Len(s) : s[i] \in DigitChars

DigitValue(c) == (CHOOSE i \in 1..10 : AsciiDigits[i] = c) - 1
IsAsciiDigit(c) == \E i \in 1..10 : AsciiDigits[i] = c
RECURSIVE DigitsValue(_)
DigitsValue(s) ==
    IF s = <<>> THEN 0
    ELSE 10 * DigitsValue(SubSeq(s, 1, Len(s) - 1)) + DigitValue(s[Len(s)])

\* int(s): None stands for ValueError. Blanks around the number and one
\* leading sign are accepted; every other character must be a decimal digit.
int(s) ==
    LET t == strip(s)
        signed == t # <<>> /\ t[1] \in {"-", "+"}
        d == IF signed THEN Tail(t) ELSE t
    IN  IF d # <<>> /\ \A i \in 1..Len(d) : IsAsciiDigit(d[i])
        THEN Some(IF signed /\ t[1] = "-" THEN 0 - DigitsValue(d)
                  ELSE DigitsValue(d))
        ELSE None

\* str(n) for n >= 0
RECURSIVE str(_)
str(n) ==
    IF n < 10 THEN <<AsciiDigits[n + 1]>>
    ELSE str(n \div 10) \o <<AsciiDigits[(n % 10) + 1]>>

\* t occurs in s as a contiguous substring
Contains(s, t) ==
    \E i \in 0..(Len(s) - Len(t)) : SubSeq(s, i + 1, i + Len(t)) = t
\* the icontains lookup: UPPER(column) LIKE UPPER('%token%')
icontains(column, token) == Contains(upper(column), upper(token))

\* the list comprehension shared by the text filters:
\* [x.strip() for x in raw.split(',') if x.strip()]
RECURSIVE StripAll(_)
StripAll(parts) ==
    IF parts = <<>> THEN <<>>
    ELSE (IF strip(Head(parts)) # <<>> THEN <<strip(Head(parts))>> ELSE <<>>)
         \o StripAll(Tail(parts))
tokens(raw) == StripAll(split(raw))

(***************************************************************************)
(* The store: the rows of books_book (models.py), each with the related    *)
(* rows reached through the junction tables and books_format. A Book's id  *)
(* is its position. The store is read-only.                                *)
(***************************************************************************)
En == <<"e","n">>
Fr == <<"f","r">>
Child == <<"C","h">>
Adventure == <<"A","d">>
Twain == <<"T","w">>
Dickens == <<"D","i">>
Html == <<"t","/","h">>
Epub == <<"a","/","e">>

\* the rows a BooksBook can be, with its related rows
BooksBook ==
    { [gutenberg_id |-> 1, download_count |-> Some(2), title |-> Some(<<"P","r">>),
       authors |-> {Twain}, languages |-> {En}, subjects |-> {Child},
       bookshelves |-> {}, formats |-> {Html}],
      [gutenberg_id |-> 2, download_count |-> Some(2), title |-> Some(Adventure),
       authors |-> {Twain, Dickens}, languages |-> {En, Fr},
       subjects |-> {Child, <<"c","h","a","d">>}, bookshelves |-> {Child},
       formats |-> {Html, Epub}],
      [gutenberg_id |-> 1, download_count |-> None, title |-> None,
       authors |-> {}, languages |-> {Fr}, subjects |-> {},
       bookshelves |-> {Adventure}, formats |-> {Epub}],
      [gutenberg_id |-> 3, download_count |-> Some(1), title |-> Some(<<"a","d">>),
       authors |-> {Dickens}, languages |-> {Fr}, subjects |-> {},
       bookshelves |-> {}, formats |-> {}] }

\* the store contents: up to MaxBooks Books, no two alike in every column and
\* relation
Stores ==
    UNION { {s \in [1..n -> BooksBook] : \A i, j \in 1..n : i # j => s[i] # s[j]} :
            n \in 0..MaxBooks }

VARIABLES
    store,        \* the books_book rows with their related rows
    nulls_first,  \* whether the database sorts NULL first under DESC
    pc,           \* "idle": no request made; "responded": resp answers req
    req,          \* query parameters of the last request: name -> raw text
    resp,         \* the response to req
    again,        \* the response to the same req before it was repeated
    trail,        \* results of the pages visited since page 1, following next
    walking,      \* the client started at page 1 and only followed next
    detail,       \* the response to a detail request (req is then its pk)
    cmd           \* the connection, cursor and outcome of an introspect_db run

vars == <<store, nulls_first, pc, req, resp, again, trail, walking, detail, cmd>>

Books == DOMAIN store

(***************************************************************************)
(* The queryset: for every Book the number of rows the joins of the        *)
(* filters produce for it, and whether .distinct() was applied.            *)
(***************************************************************************)
\* BooksBook.objects.prefetch_related(...).order_by('-download_count')
objects == [rows |-> [b \in Books |-> 1], distinct |-> FALSE]

InList(v, list) == \E i \in 1..Len(list) : list[i] = v
AnyContains(column, toks) == \E i \in 1..Len(toks) : icontains(column, toks[i])

\* queryset.filter(gutenberg_id__in=ids): a condition on the Book row itself
filter_gutenberg_id(qs, ids) ==
    [qs EXCEPT !.rows = [b \in Books |->
        IF InList(store[b].gutenberg_id, ids) THEN qs.rows[b] ELSE 0]]

\* queryset.filter(languages__code__in=codes): inner join through
\* books_book_languages, one row per matching language of the Book
filter_languages(qs, codes) ==
    [qs EXCEPT !.rows = [b \in Books |->
        qs.rows[b] * Cardinality({l \in store[b].languages : InList(l, codes)})]]

\* the rows of a LEFT OUTER JOIN: the related rows, or one NULL row
LeftJoin(related) == IF related = {} THEN {None} ELSE {Some(r) : r \in related}

\* queryset.filter(OR over topics of subjects__name__icontains |
\* bookshelves__name__icontains): both relations are outer joined and a row
\* is kept when its subject or its bookshelf matches some topic
filter_topic(qs, topic_list) ==
    [qs EXCEPT !.rows = [b \in Books |->
        qs.rows[b] * Cardinality(
            {sh \in LeftJoin(store[b].subjects) \X LeftJoin(store[b].bookshelves) :
                \/ /\ ~IsNone(sh[1])
                   /\ AnyContains(Val(sh[1]), topic_list)
                \/ /\ ~IsNone(sh[2])
                   /\ AnyContains(Val(sh[2]), topic_list)})]]

\* queryset.filter(booksformat__mime_type__in=mime_type_list)
filter_mime_type(qs, mime_type_list) ==
    [qs EXCEPT !.rows = [b \in Books |->
        qs.rows[b] * Cardinality({f \in store[b].formats : InList(f, mime_type_list)})]]

\* queryset.filter(OR over authors of authors__name__icontains)
filter_author(qs, author_list) ==
    [qs EXCEPT !.rows = [b \in Books |->
        qs.rows[b] * Cardinality({a \in store[b].authors : AnyContains(a, author_list)})]]

\* queryset.filter(OR over titles of title__icontains): NULL matches nothing
filter_title(qs, title_list) ==
    [qs EXCEPT !.rows = [b \in Books |->
        IF ~IsNone(store[b].title) /\ AnyContains(Val(store[b].title), title_list)
        THEN qs.rows[b] ELSE 0]]

\* queryset.distinct(): SELECT DISTINCT over the Book columns
distinct(qs) == [qs EXCEPT !.distinct = TRUE]

\* the rows the query returns for Book b
ResultRows(qs, b) ==
    IF qs.distinct /\ qs.rows[b] > 1 THEN 1 ELSE qs.rows[b]

RECURSIVE SumRows(_, _)
SumRows(qs, bs) ==
    IF bs = {} THEN 0
    ELSE LET b == CHOOSE c \in bs : TRUE
         IN  ResultRows(qs, b) + SumRows(qs, bs \ {b})
\* queryset.count()
count(qs) == SumRows(qs, Books)

(***************************************************************************)
(* Evaluation order of the queryset: ORDER BY download_count DESC. Rows    *)
(* with equal download_count come in whatever order the database picks,    *)
(* and the place of NULL depends on the database.                          *)
(***************************************************************************)
\* Book a's rows come strictly before Book b's rows
SortsBefore(a, b) ==
    LET x == store[a].download_count
        y == store[b].download_count
    IN  IF IsNone(x) THEN nulls_first /\ ~IsNone(y)
        ELSE IF IsNone(y) THEN ~nulls_first
        ELSE Val(x) > Val(y)

\* every sequence of the rows left (m: Book -> number of rows) the ORDER BY allows
RECURSIVE Orderings(_)
Orderings(m) ==
    LET left == {b \in Books : m[b] > 0}
        first == {b \in left : \A c \in left : ~SortsBefore(c, b)}
    IN  IF left = {} THEN {<<>>}
        ELSE UNION {{<<b>> \o s : s \in Orderings([m EXCEPT ![b] = @ - 1])} :
                    b \in first}

\* the row sequences one execution of the query can return (Book ids)
order_by(qs) == Orderings([b \in Books |-> ResultRows(qs, b)])

(***************************************************************************)
(* BookListView.get: the filters.                                          *)
(***************************************************************************)
\* request.query_params.get(name) is truthy: present and not empty
Truthy(params, name) == name \in DOMAIN params /\ params[name] # <<>>

RECURSIVE DigitTokens(_)
\* [x.strip() for x in parts if x.strip().isdigit()]
DigitTokens(parts) ==
    IF parts = <<>> THEN <<>>
    ELSE (IF isdigit(strip(Head(parts))) THEN <<strip(Head(parts))>> ELSE <<>>)
         \o DigitTokens(Tail(parts))

\* the gutenberg_id stage: int() of a token that isdigit() accepted may still
\* raise ValueError; the except clause then leaves the queryset as it was
apply_gutenberg_id(qs, params) ==
    IF ~Truthy(params, "gutenberg_id") THEN qs
    ELSE LET toks == DigitTokens(split(params["gutenberg_id"]))
         IN  IF \E i \in 1..Len(toks) : IsNone(int(toks[i])) THEN qs
             ELSE LET ids == [i \in 1..Len(toks) |-> Val(int(toks[i]))]
                  IN  IF ids # <<>> THEN filter_gutenberg_id(qs, ids) ELSE qs

\* the language stage: codes lowercased, no distinct()
apply_language(qs, params) ==
    IF ~Truthy(params, "language") THEN qs
    ELSE LET toks == tokens(params["language"])
             language_codes == [i \in 1..Len(toks) |-> lower(toks[i])]
         IN  IF language_codes # <<>> THEN filter_languages(qs, language_codes)
             ELSE qs

\* the topic stage
apply_topic(qs, params) ==
    IF ~Truthy(params, "topic") THEN qs
    ELSE LET topic_list == tokens(params["topic"])
         IN  IF topic_list # <<>> THEN distinct(filter_topic(qs, topic_list))
             ELSE qs

\* the mime_type stage
apply_mime_type(qs, params) ==
    IF ~Truthy(params, "mime_type") THEN qs
    ELSE LET mime_type_list == tokens(params["mime_type"])
         IN  IF mime_type_list # <<>>
             THEN distinct(filter_mime_type(qs, mime_type_list))
             ELSE qs

\* the author stage
apply_author(qs, params) ==
    IF ~Truthy(params, "author") THEN qs
    ELSE LET author_list == tokens(params["author"])
         IN  IF author_list # <<>> THEN distinct(filter_author(qs, author_list))
             ELSE qs

\* the title stage
apply_title(qs, params) ==
    IF ~Truthy(params, "title") THEN qs
    ELSE LET title_list == tokens(params["title"])
         IN  IF title_list # <<>> THEN distinct(filter_title(qs, title_list))
             ELSE qs

\* the queryset after all six stages, in the order of the code
filtered(params) ==
    apply_title(
      apply_author(
        apply_mime_type(
          apply_topic(
            apply_language(
              apply_gutenberg_id(objects, params), params), params), params),
        params), params)

(***************************************************************************)
(* BookPagination (rest_framework PageNumberPagination over Django's       *)
(* Paginator) as the view configures and calls it.                         *)
(***************************************************************************)
page_size == 25
max_page_size == 100

Min(a, b) == IF a < b THEN a ELSE b
Max(a, b) == IF a > b THEN a ELSE b

\* get_page_size: a positive integer page_size parameter, cut off at
\* max_page_size; the class default when absent or not a positive integer
get_page_size(params) ==
    IF "page_size" \in DOMAIN params
    THEN LET v == int(params["page_size"])
         IN  IF ~IsNone(v) /\ Val(v) > 0 THEN Min(Val(v), max_page_size)
             ELSE page_size
    ELSE page_size

\* Paginator.num_pages with allow_empty_first_page and no orphans
num_pages(cnt, per_page) == (Max(1, cnt) + per_page - 1) \div per_page

\* get_page_number and Paginator.validate_number: the page asked for, or None
\* for PageNotAnInteger / EmptyPage (both become NotFound)
get_page_number(params, cnt, per_page) ==
    IF ~Truthy(params, "page") THEN Some(1)
    ELSE IF params["page"] = <<"l","a","s","t">> THEN Some(num_pages(cnt, per_page))
    ELSE LET v == int(params["page"])
         IN  IF IsNone(v) THEN None
             ELSE IF Val(v) < 1 THEN None
             ELSE IF Val(v) > num_pages(cnt, per_page) THEN None
             ELSE v

\* a replace_query_param that builds the query string from the one parameter
replace_query_param_alone(params, name, value) ==
    [k \in {name} |-> value]

\* params with parameter name set to value (replace_query_param)
replace_query_param(params, name, value) ==
    [k \in DOMAIN params \cup {name} |-> IF k = name THEN value ELSE params[k]]
\* params without parameter name (remove_query_param)
remove_query_param(params, name) ==
    [k \in DOMAIN params \ {name} |-> params[k]]

\* get_next_link with has_next() off by one: the last page links past the end
get_next_link_past_end(params, number, cnt, per_page) ==
    IF number <= num_pages(cnt, per_page)
    THEN Some(replace_query_param(params, "page", str(number + 1)))
    ELSE None

\* get_next_link: None unless the page has a next one
get_next_link(params, number, cnt, per_page) ==
    IF number < num_pages(cnt, per_page)
    THEN Some(replace_query_param(params, "page", str(number + 1)))
    ELSE None

\* get_previous_link: page 1 is linked without a page parameter
get_previous_link(params, number) ==
    IF number > 1
    THEN IF number - 1 = 1 THEN Some(remove_query_param(params, "page"))
         ELSE Some(replace_query_param(params, "page", str(number - 1)))
    ELSE None

\* BookSerializer: the DTO of Book b
BookSerializer(b) ==
    [id |-> b, title |-> store[b].title, gutenberg_id |-> store[b].gutenberg_id,
     download_count |-> store[b].download_count, authors |-> store[b].authors,
     languages |-> store[b].languages, subjects |-> store[b].subjects,
     bookshelves |-> store[b].bookshelves, formats |-> store[b].formats]

\* Paginator.page(number).object_list: rows bottom+1 .. top of the execution
page_slice(ord, number, per_page) ==
    SubSeq(ord, (number - 1) * per_page + 1, Min(number * per_page, Len(ord)))

NotFound == [status |-> 404]

\* BookListView.get on params, when the database returns the rows as ord
BookListView_get(params, ord) ==
    LET queryset == filtered(params)
        total_count == count(queryset)
        per_page == get_page_size(params)
        number == get_page_number(params, total_count, per_page)
    IN  IF IsNone(number) THEN NotFound
        ELSE LET page == page_slice(ord, Val(number), per_page)
             IN  [status |-> 200,
                  count |-> total_count,
                  next |-> get_next_link(params, Val(number), total_count, per_page),
                  previous |-> get_previous_link(params, Val(number)),
                  results |-> [i \in 1..Len(page) |-> BookSerializer(page[i])],
                  count_total |-> total_count]

(***************************************************************************)
(* BookDetailView.get.                                                     *)
(***************************************************************************)
\* get_object_or_404(BooksBook.objects..., pk=pk): the Book with that id, or
\* None when it raises Http404
get_object_or_404(pk) == IF pk \in Books THEN Some(pk) ELSE None

\* the not-found outcome that Http404 becomes
Http404 == [status |-> 404]

\* the except clause of the view: logs the exception and raises it again
except_Exception(exc) == exc

\* an except clause that answers with an empty body instead of raising
BookDetailView_get_swallowing(pk) ==
    LET book == get_object_or_404(pk)
    IN  IF IsNone(book) THEN [status |-> 200, data |-> <<>>]
        ELSE [status |-> 200, data |-> BookSerializer(Val(book))]

\* BookDetailView.get on pk
BookDetailView_get(pk) ==
    LET book == get_object_or_404(pk)
    IN  IF IsNone(book) THEN except_Exception(Http404)
        ELSE [status |-> 200, data |-> BookSerializer(Val(book))]

(***************************************************************************)
(* The introspect_db command: Command.handle and Command.generate_models.  *)
(* A connection or cursor is "none" before it is opened, then "open", and  *)
(* "closed" once its close() was called.                                   *)
(***************************************************************************)
\* the state before a run
NotRun == [conn |-> "none", cursor |-> "none", outcome |-> "none", output |-> None]

\* table_name LIKE 'prefix%' for a prefix without %: `_` matches any one
\* character, every other character matches itself
like_prefix(table_name, prefix) ==
    /\ Len(table_name) >= Len(prefix)
    /\ \A i \in 1..Len(prefix) : prefix[i] = "_" \/ prefix[i] = table_name[i]

\* the first column called name or title, if any (the next(...) of the
\* __str__ branch)
str_field(columns) ==
    LET at == {i \in 1..Len(columns) : columns[i] \in {"name", "title"}}
    IN  IF at = {} THEN None
        ELSE Some(columns[CHOOSE i \in at : \A j \in at : i <= j])

\* generate_models on a database with these tables, each a name and its
\* columns; fault names the statement that raises, if any. For a table with
\* a name or title column the f-string of the __str__ method evaluates
\* self.id on the Command, which raises AttributeError. models_code is
\* represented by the set of tables it has a class for.
generate_models(tables, prefix, fault) ==
    LET found == {t \in tables : like_prefix(t.table_name, prefix)}
    IN  IF fault = "list_tables"
        THEN [cursor |-> "open", raised |-> TRUE, models_code |-> None]
        ELSE IF found = {}
        THEN [cursor |-> "open", raised |-> FALSE, models_code |-> None]
        ELSE IF fault = "columns"
        THEN [cursor |-> "open", raised |-> TRUE, models_code |-> None]
        ELSE IF \E t \in found : ~IsNone(str_field(t.columns))
        THEN [cursor |-> "open", raised |-> TRUE, models_code |-> None]
        ELSE [cursor |-> "closed", raised |-> FALSE,
              models_code |-> Some({t.table_name : t \in found})]

\* Command.handle: the state it leaves behind
handle(tables, prefix, fault) ==
    IF fault = "connect"
    THEN [conn |-> "none", cursor |-> "none", outcome |-> "raised", output |-> None]
    ELSE LET g == generate_models(tables, prefix, fault)
         IN  IF g.raised
             THEN [conn |-> "open", cursor |-> g.cursor,
                   outcome |-> "raised", output |-> None]
             ELSE IF IsNone(g.models_code)
             THEN [conn |-> "closed", cursor |-> g.cursor,
                   outcome |-> "no_models", output |-> None]
             ELSE IF fault = "write"
             THEN [conn |-> "open", cursor |-> g.cursor,
                   outcome |-> "raised", output |-> None]
             ELSE [conn |-> "closed", cursor |-> g.cursor,
                   outcome |-> "written", output |-> g.models_code]

\* the tables a database may hold, the prefixes asked for, and the
\* statement of a run that fails
Tables ==
    {[table_name |-> <<"b", "_", "a">>, columns |-> <<"id", "name">>],
     [table_name |-> <<"b", "x", "a">>, columns |-> <<"id">>],
     [table_name |-> <<"c">>, columns |-> <<"id", "title">>],
     [table_name |-> <<"b", "z", "a">>, columns |-> <<"id", "code">>]}
Prefixes == {<<"b", "_">>, <<"c">>, <<"z">>}
Faults == {"none", "connect", "list_tables", "columns", "write"}

(***************************************************************************)
(* Requests: the query strings a client sends.                             *)
(***************************************************************************)
FilterNames == {"gutenberg_id", "language", "topic", "mime_type", "author", "title"}

FilterValues ==
    [n \in FilterNames |->
        CASE n = "gutenberg_id" ->
                { <<"2",","," ","x">>, <<"x">>, <<"1",",",SuperscriptTwo>> }
          [] n = "language" -> { <<"e","n">>, <<"E","N",","," ","f","r">> }
          [] n = "topic" -> { <<"C","H",",","a","d">> }
          [] n = "mime_type" -> { Html \o <<",">> \o Epub }
          [] n = "author" -> { <<"d","i">> }
          [] n = "title" -> { <<"p",","," ","A">> }]

PageValues == { <<"2">>, <<"0">>, <<"x">>, <<"l","a","s","t">> }
PageSizeValues == { <<"1">>, <<"2">>, <<"-","1">>, <<"1","0","1">> }

\* at most MaxFilters filter parameters, each with one of its values
FilterParams ==
    UNION { {f \in [d -> UNION {FilterValues[n] : n \in d}] :
                \A n \in d : f[n] \in FilterValues[n]} :
            d \in {e \in SUBSET FilterNames : Cardinality(e) <= MaxFilters} }

PageParams ==
    {<<>>} \cup {[n \in {"page"} |-> v] : v \in PageValues}
PageSizeParams ==
    {<<>>} \cup {[n \in {"page_size"} |-> v] : v \in PageSizeValues}

(***************************************************************************)
(* The client and the endpoint.                                            *)
(***************************************************************************)
NoResponse == [status |-> 0]

Init ==
    /\ store \in Stores
    /\ nulls_first \in BOOLEAN
    /\ pc = "idle"
    /\ req = <<>>
    /\ resp = NoResponse
    /\ again = None
    /\ trail = <<>>
    /\ walking = FALSE
    /\ detail = NoResponse
    /\ cmd = NotRun

\* the ids of the Books of a response, in order
Ids(r) == [i \in 1..Len(r.results) |-> r.results[i].id]

\* the response is page 1 of its filtered set
OnFirstPage(r) ==
    /\ r.status = 200
    /\ IsNone(r.previous)

\* GET /books?params on an idle client
Get ==
    /\ pc = "idle"
    /\ \E f \in FilterParams, p \in PageParams, z \in PageSizeParams :
         LET params == f @@ p @@ z
         IN  \E ord \in order_by(filtered(params)) :
               /\ req' = params
               /\ resp' = BookListView_get(params, ord)
    /\ pc' = "responded"
    /\ again' = None
    /\ walking' = OnFirstPage(resp')
    /\ trail' = IF walking' THEN Ids(resp') ELSE <<>>
    /\ UNCHANGED <<store, nulls_first, detail, cmd>>

\* GET the request the next link of the last response names
FollowNext ==
    /\ pc = "responded"
    /\ resp.status = 200
    /\ ~IsNone(resp.next)
    /\ LET params == Val(resp.next)
       IN  \E ord \in order_by(filtered(params)) :
             /\ req' = params
             /\ resp' = BookListView_get(params, ord)
    /\ again' = None
    /\ walking' = (walking /\ resp'.status = 200)
    /\ trail' = IF walking' THEN trail \o Ids(resp') ELSE <<>>
    /\ UNCHANGED <<store, nulls_first, pc, detail, cmd>>

\* GET the request the previous link of the last response names
FollowPrevious ==
    /\ pc = "responded"
    /\ resp.status = 200
    /\ ~IsNone(resp.previous)
    /\ LET params == Val(resp.previous)
       IN  \E ord \in order_by(filtered(params)) :
             /\ req' = params
             /\ resp' = BookListView_get(params, ord)
    /\ again' = None
    /\ walking' = FALSE
    /\ trail' = <<>>
    /\ UNCHANGED <<store, nulls_first, pc, detail, cmd>>

\* GET the same request a second time
Repeat ==
    /\ pc = "responded"
    /\ IsNone(again)
    /\ \E ord \in order_by(filtered(req)) :
         resp' = BookListView_get(req, ord)
    /\ again' = Some(resp)
    /\ walking' = FALSE
    /\ trail' = <<>>
    /\ UNCHANGED <<store, nulls_first, pc, req, detail, cmd>>

\* GET /books/pk on an idle client
Detail ==
    /\ pc = "idle"
    /\ \E pk \in 0..(MaxBooks + 1) :
         /\ req' = [n \in {"pk"} |-> pk]
         /\ detail' = BookDetailView_get(pk)
    /\ pc' = "detailed"
    /\ UNCHANGED <<store, nulls_first, resp, again, trail, walking, cmd>>

\* one run of manage.py introspect_db
IntrospectDb ==
    /\ pc = "idle"
    /\ \E tables \in SUBSET Tables, prefix \in Prefixes, fault \in Faults :
         cmd' = handle(tables, prefix, fault)
    /\ pc' = "exited"
    /\ UNCHANGED <<store, nulls_first, req, resp, again, trail, walking, detail>>

Next == Get \/ FollowNext \/ FollowPrevious \/ Repeat \/ Detail \/ IntrospectDb

Spec == Init /\ [][Next]_vars

(***************************************************************************)
(* What the specification says a request selects, read from its text:      *)
(* the values of a filter are its comma-separated tokens, a gutenberg_id   *)
(* token that is not an integer is dropped by itself, a filter with no     *)
(* value left is absent, one filter holds when some value matches, and all *)
(* present filters must hold.                                              *)
(***************************************************************************)
Values(params, n) ==
    IF n \in DOMAIN params
    THEN LET t == tokens(params[n]) IN {t[i] : i \in 1..Len(t)}
    ELSE {}

IsInteger(t) == t # <<>> /\ \A i \in 1..Len(t) : IsAsciiDigit(t[i])

Satisfies(b, params) ==
    LET ids == {DigitsValue(t) : t \in {u \in Values(params, "gutenberg_id") : IsInteger(u)}}
        codes == {lower(t) : t \in Values(params, "language")}
        topics == Values(params, "topic")
        mimes == Values(params, "mime_type")
        names == Values(params, "author")
        titles == Values(params, "title")
    IN  /\ ids # {} => store[b].gutenberg_id \in ids
        /\ codes # {} => store[b].languages \cap codes # {}
        /\ topics # {} =>
             \E t \in topics, n \in store[b].subjects \cup store[b].bookshelves :
                icontains(n, t)
        /\ mimes # {} => store[b].formats \cap mimes # {}
        /\ names # {} => \E t \in names, a \in store[b].authors : icontains(a, t)
        /\ titles # {} =>
             /\ ~IsNone(store[b].title)
             /\ \E t \in titles : icontains(Val(store[b].title), t)

Matching(params) == {b \in Books : Satisfies(b, params)}

\* the page and page size in effect for an answered request
EffectivePageSize == get_page_size(req)
EffectivePage == Val(get_page_number(req, resp.count_total, EffectivePageSize))

\* C1: every Book identity appears at most once in the results of a list
\* response, whatever the filters and the store.
C1_NoDuplicateBooks ==
    resp.status = 200 =>
        \A i, j \in 1..Len(resp.results) :
            i # j => resp.results[i].id # resp.results[j].id

\* C2: count_total is the number of distinct Books that satisfy all the
\* filters of the request (never one per matching related row).
C2_CountTotalIsDistinctMatches ==
    resp.status = 200 => resp.count_total = Cardinality(Matching(req))

\* C3: count is the number of Books on the returned page:
\* max(0, min(page_size, count_total - (page-1)*page_size)), the length of results.
C3_CountIsPageLength ==
    resp.status = 200 =>
        /\ resp.count = Len(resp.results)
        /\ resp.count =
             Max(0, Min(EffectivePageSize,
                        resp.count_total - (EffectivePage - 1) * EffectivePageSize))

\* the page number a request asks for, when it is an integer
RequestedPage ==
    IF Truthy(req, "page") /\ ~IsNone(int(req["page"]))
    THEN int(req["page"]) ELSE None

\* C4: a page number beyond the last page of the filtered set is answered
\* with success, empty results, a previous link and no next link.
C4_PageBeyondRangeIsEmpty ==
    (/\ pc = "responded"
     /\ ~IsNone(RequestedPage)
     /\ Val(RequestedPage) > 1
     /\ (Val(RequestedPage) - 1) * EffectivePageSize >= count(filtered(req)))
    => /\ resp.status = 200
       /\ resp.results = <<>>
       /\ ~IsNone(resp.previous)
       /\ IsNone(resp.next)

\* C5: in every list response next is non-null exactly when
\* page * page_size < count_total and previous exactly when page > 1,
\* for the effective page and page size of the request.
C5_NextPreviousLinks ==
    resp.status = 200 =>
        /\ ~IsNone(resp.next) <=> EffectivePage * EffectivePageSize < resp.count_total
        /\ ~IsNone(resp.previous) <=> EffectivePage > 1

\* C5 witness: a middle page, with both links, and a last page after it
C5_MiddlePage ==
    /\ resp.status = 200
    /\ ~IsNone(resp.next)
    /\ ~IsNone(resp.previous)
    /\ EffectivePage = 2
    /\ EffectivePageSize = 1

\* the number of places of sequence s that hold v
Occurrences(s, v) == Cardinality({i \in 1..Len(s) : s[i] = v})

\* C6: following next from page 1 until next is null visits every Book
\* matching the filters exactly once (none skipped, none repeated).
C6_WalkVisitsEachOnce ==
    (walking /\ resp.status = 200 /\ IsNone(resp.next)) =>
        \A b \in Books :
            Occurrences(trail, b) = IF Satisfies(b, req) THEN 1 ELSE 0

\* C7: the Books the request selects are exactly those that satisfy every
\* filter of the request (AND across filters, OR within one filter).
C7_SelectedAreTheMatching ==
    pc = "responded" =>
        {b \in Books : filtered(req).rows[b] > 0} = Matching(req)

\* x is placed before y: download_count descending, NULL after every number,
\* equal download_count by Book identity in direction dir
PlacedBefore(x, y, dir) ==
    IF x.download_count = y.download_count
    THEN IF dir = "asc" THEN x.id <= y.id ELSE x.id >= y.id
    ELSE IF IsNone(x.download_count) THEN FALSE
    ELSE IF IsNone(y.download_count) THEN TRUE
    ELSE Val(x.download_count) > Val(y.download_count)

InOrder(r, dir) ==
    r.status = 200 =>
        \A i, j \in 1..Len(r.results) :
            i < j => PlacedBefore(r.results[i], r.results[j], dir)

\* C8: results are ordered by download_count descending with NULL last and
\* one fixed tiebreak on Book identity, the same for every response.
C8_OrderedWithFixedTiebreak ==
    \E dir \in {"asc", "desc"} :
        /\ InOrder(resp, dir)
        /\ ~IsNone(again) => InOrder(Val(again), dir)

\* C9: the same request made twice on the unchanged store gets the same
\* count_total and the same results in the same order.
C9_Idempotent ==
    (~IsNone(again) /\ resp.status = 200 /\ Val(again).status = 200) =>
        /\ Val(again).count_total = resp.count_total
        /\ Val(again).results = resp.results

\* the page size the specification gives a request: 25 when absent or not a
\* positive integer, at most 100
ClaimedPageSize ==
    IF "page_size" \in DOMAIN req /\ ~IsNone(int(req["page_size"]))
       /\ Val(int(req["page_size"])) > 0
    THEN Min(Val(int(req["page_size"])), 100)
    ELSE 25

\* the request has no page parameter or one that is not a positive integer
PageAbsentOrInvalid ==
    \/ "page" \notin DOMAIN req
    \/ IsNone(int(req["page"]))
    \/ Val(int(req["page"])) < 1

\* C10: pagination parameters never cause an error: an absent or invalid
\* page is page 1, an absent or invalid page_size is 25, a page_size above
\* 100 is 100.
C10_PaginationFallsBack ==
    pc = "responded" =>
        /\ EffectivePageSize = ClaimedPageSize
        /\ PageAbsentOrInvalid =>
             /\ resp.status = 200
             /\ IsNone(resp.previous)
             /\ Len(resp.results) = Min(ClaimedPageSize, resp.count_total)

\* the integers among the gutenberg_id tokens of a request, as the
\* specification reads them: every token that is not an integer is dropped
IntegerIds(params) ==
    {DigitsValue(t) : t \in {u \in Values(params, "gutenberg_id") : IsInteger(u)}}

\* C11: the gutenberg_id filter is applied with exactly the integer tokens of
\* the parameter; a token that is not an integer (also one isdigit() accepts
\* and int() rejects) is dropped by itself, and the filter is absent only
\* when no token is an integer.
C11_IntegerTokensAreApplied ==
    (pc = "responded" /\ "gutenberg_id" \in DOMAIN req) =>
        {b \in Books : apply_gutenberg_id(objects, req).rows[b] > 0}
          = IF IntegerIds(req) = {} THEN Books
            ELSE {b \in Books : store[b].gutenberg_id \in IntegerIds(req)}

\* C12: a detail request for an id no Book has ends in the not-found (404)
\* outcome, never in a 200 response or an envelope; for an id of the store
\* it returns the projection of exactly that Book.
C12_DetailOrNotFound ==
    pc = "detailed" =>
        IF \E b \in Books : b = req["pk"]
        THEN /\ detail.status = 200
             /\ detail.data.id = req["pk"]
             /\ \A f \in {"title", "gutenberg_id", "download_count", "authors",
                          "languages", "subjects", "bookshelves", "formats"} :
                    detail.data[f] = store[req["pk"]][f]
        ELSE detail = [status |-> 404]

\* C12 witness: a store with Books was asked for an id none of them has
C12_MissingId ==
    /\ pc = "detailed"
    /\ Books # {}
    /\ req["pk"] \notin Books
    /\ detail.status = 404

\* the request `link` keeps the filter parameters and the page_size of the
\* current request and its effective page is `number`, over the same
\* filtered set and count_total
KeepsFiltersAtPage(link, number) ==
    /\ \A k \in FilterNames \cup {"page_size"} :
          /\ k \in DOMAIN link <=> k \in DOMAIN req
          /\ k \in DOMAIN req => link[k] = req[k]
    /\ get_page_size(link) = EffectivePageSize
    /\ filtered(link) = filtered(req)
    /\ count(filtered(link)) = resp.count_total
    /\ get_page_number(link, count(filtered(link)), get_page_size(link)) = Some(number)

\* C13: a non-null next or previous names a request with the same filter
\* parameters and the same page_size as the current request, whose effective
\* page is page+1 for next and page-1 for previous, so the filtered set and
\* count_total are the same on the linked page.
C13_LinksPreserveFilters ==
    resp.status = 200 =>
        /\ ~IsNone(resp.next) => KeepsFiltersAtPage(Val(resp.next), EffectivePage + 1)
        /\ ~IsNone(resp.previous) =>
               KeepsFiltersAtPage(Val(resp.previous), EffectivePage - 1)

\* C13 witness: a filtered request with a page_size got both links
C13_FilteredWithBothLinks ==
    /\ resp.status = 200
    /\ DOMAIN req \cap FilterNames # {}
    /\ "page_size" \in DOMAIN req
    /\ ~IsNone(resp.next)
    /\ ~IsNone(resp.previous)
    /\ "page" \in DOMAIN Val(resp.next)

\* a psycopg2 connection is released once closed; a cursor once it is closed
\* or its connection is (cursor.closed is true from then on)
Released(c) ==
    /\ c.conn # "open"
    /\ c.cursor = "open" => c.conn = "closed"

\* C14: after a run of introspect_db the connection and the cursor are
\* released, whether models were generated, no table matched the prefix, or
\* a query or the file write raised.
C14_ConnectionAndCursorReleased ==
    pc = "exited" => Released(cmd)

====
